---- MODULE Spec2Model ----
(***************************************************************************)
(* Model of the momentum-ia conversation/workflow engine: the store tools  *)
(* of services/tools/database_tools.py, the proof-submission tools of      *)
(* services/tools/communication_tools.py and the webhook handler of        *)
(* apis/whatsapp.py.                                                       *)
(*                                                                         *)
(* The relational store is three tables kept as sequences of rows, a row's *)
(* id being its position.  Every tool is an operator from a store value    *)
(* and its arguments to a record [store, result, sends]; the actions apply *)
(* the operators to the variables.  A store call that raises is an input:  *)
(* the argument f of a tool is the number of the store call (in the order  *)
(* the tool issues them) that raises, 0 when none does.                    *)
(*                                                                         *)
(* Strings the code builds by formatting are tuples here: the status       *)
(* "user_exists_no_goal:Alex" is <<"user_exists_no_goal", "Alex">>.        *)
(* A sender string is a sequence of tokens, the token "whatsapp:" standing *)
(* for the channel prefix.                                                 *)
(***************************************************************************)
EXTENDS Integers, Sequences, FiniteSets, TLC

\* ------------------------------------------------------------------ bounds
MaxCommitments == 2
MaxVerifications == 1
MaxRawLen == 4
MaxAgentCalls == 3
MaxTurns == 2

\* ------------------------------------------------------------ value domains
NULL == "<null>"

WA == "whatsapp:"
Key1 == <<WA, "+", "1">>
Key2 == <<WA, "+", "2">>
Phones == {Key1, Key2}

Names == {"Alex"}
Goals == {"Exercise daily", "Read"}
Schedules == {NULL}
Bodies == {"", "here"}
MediaUrls == {"", "img://1"}
MediaArgs == {NULL, "img://1"}
Dates == {"2024-01-15", "2024-01-16"}

AWAITING_PROOF_PHOTO == "awaiting_proof_photo"

\* Python truthiness of an optional string: None and "" are falsy.
Falsy(x) == x \in {NULL, ""}

VARIABLES users, commitments, verifications, last, inflight

vars == <<users, commitments, verifications, last, inflight>>

Store == [users |-> users, commitments |-> commitments,
          verifications |-> verifications]

\* ------------------------------------------------------------ store queries
\* supabase.table("users").select(...).eq("phone_number", p): ids of the rows
UsersByPhone(S, p) ==
    {i \in 1..Len(S.users) : S.users[i].phone_number = p}

\* response.data[0] of a users select
FirstUser(S, p) ==
    CHOOSE i \in UsersByPhone(S, p) : \A j \in UsersByPhone(S, p) : i <= j

\* .table("commitments").select(...).eq("user_id", uid).eq("status", "active")
ActiveCommitments(S, uid) ==
    {c \in 1..Len(S.commitments) :
        /\ S.commitments[c].user_id = uid
        /\ S.commitments[c].status = "active"}

\* status column default of the commitments table (the insert sets no status)
DefaultCommitmentStatus == "active"

\* What a tool hands back: the store after it, its return value, the
\* dispatcher calls it made and (for the commitment tools) the id of the
\* commitment row it used, 0 when none.
Ret(S, res, sends) == [store |-> S, result |-> res, sends |-> sends, row |-> 0]
RetRow(S, res, c) == [store |-> S, result |-> res, sends |-> <<>>, row |-> c]

\* Variant of get_user_status that answers new_user for an unseen key
\* without inserting the row.
get_user_status_no_insert(S, p, f) ==
    IF f = 1 THEN Ret(S, <<"error_database_check", NULL>>, <<>>)
    ELSE IF UsersByPhone(S, p) = {} THEN Ret(S, <<"new_user", NULL>>, <<>>)
    ELSE LET user == S.users[FirstUser(S, p)] IN
        IF Falsy(user.name) THEN Ret(S, <<"new_user", NULL>>, <<>>)
        ELSE IF f = 2 THEN Ret(S, <<"error_database_check", NULL>>, <<>>)
        ELSE IF ActiveCommitments(S, FirstUser(S, p)) # {}
             THEN Ret(S, <<"user_exists_active_goal", user.name>>, <<>>)
             ELSE Ret(S, <<"user_exists_no_goal", user.name>>, <<>>)

\* Variant of get_user_status that skips the commitments select and answers
\* every named user as one without a goal.
get_user_status_goal_ignored(S, p, f) ==
    IF f = 1 THEN Ret(S, <<"error_database_check", NULL>>, <<>>)
    ELSE IF UsersByPhone(S, p) = {} THEN
        IF f = 2 THEN Ret(S, <<"error_database_check", NULL>>, <<>>)
        ELSE Ret([S EXCEPT !.users = Append(@,
                     [phone_number |-> p, name |-> NULL,
                      proof_submission_state |-> NULL,
                      proof_submission_data |-> {}])],
                 <<"new_user", NULL>>, <<>>)
    ELSE LET user == S.users[FirstUser(S, p)] IN
        IF Falsy(user.name) THEN Ret(S, <<"new_user", NULL>>, <<>>)
        ELSE Ret(S, <<"user_exists_no_goal", user.name>>, <<>>)

\* Variant of get_user_status whose insert gives the new row the name "User"
\* (the default the status strings fall back to).
get_user_status_named_on_insert(S, p, f) ==
    IF f = 1 THEN Ret(S, <<"error_database_check", NULL>>, <<>>)
    ELSE IF UsersByPhone(S, p) = {} THEN
        IF f = 2 THEN Ret(S, <<"error_database_check", NULL>>, <<>>)
        ELSE Ret([S EXCEPT !.users = Append(@,
                     [phone_number |-> p, name |-> "User",
                      proof_submission_state |-> NULL,
                      proof_submission_data |-> {}])],
                 <<"new_user", NULL>>, <<>>)
    ELSE LET user == S.users[FirstUser(S, p)] IN
        IF Falsy(user.name) THEN Ret(S, <<"new_user", NULL>>, <<>>)
        ELSE IF f = 2 THEN Ret(S, <<"error_database_check", NULL>>, <<>>)
        ELSE IF ActiveCommitments(S, FirstUser(S, p)) # {}
             THEN Ret(S, <<"user_exists_active_goal", user.name>>, <<>>)
             ELSE Ret(S, <<"user_exists_no_goal", user.name>>, <<>>)

\* Variant of get_user_status whose try block ends before the commitments
\* select: a failure of that select leaves the tool as an exception.
get_user_status_raising(S, p, f) ==
    IF f = 1 THEN Ret(S, <<"error_database_check", NULL>>, <<>>)
    ELSE IF UsersByPhone(S, p) = {} THEN
        IF f = 2 THEN Ret(S, <<"error_database_check", NULL>>, <<>>)
        ELSE Ret([S EXCEPT !.users = Append(@,
                     [phone_number |-> p, name |-> NULL,
                      proof_submission_state |-> NULL,
                      proof_submission_data |-> {}])],
                 <<"new_user", NULL>>, <<>>)
    ELSE LET user == S.users[FirstUser(S, p)] IN
        IF Falsy(user.name) THEN Ret(S, <<"new_user", NULL>>, <<>>)
        ELSE IF f = 2 THEN Ret(S, <<"raised", NULL>>, <<>>)
        ELSE IF ActiveCommitments(S, FirstUser(S, p)) # {}
             THEN Ret(S, <<"user_exists_active_goal", user.name>>, <<>>)
             ELSE Ret(S, <<"user_exists_no_goal", user.name>>, <<>>)

\* Variant of get_user_status that takes a row for named unless its name is
\* null: an empty name counts as a name.
get_user_status_null_name_only(S, p, f) ==
    IF f = 1 THEN Ret(S, <<"error_database_check", NULL>>, <<>>)
    ELSE IF UsersByPhone(S, p) = {} THEN
        IF f = 2 THEN Ret(S, <<"error_database_check", NULL>>, <<>>)
        ELSE Ret([S EXCEPT !.users = Append(@,
                     [phone_number |-> p, name |-> NULL,
                      proof_submission_state |-> NULL,
                      proof_submission_data |-> {}])],
                 <<"new_user", NULL>>, <<>>)
    ELSE LET user == S.users[FirstUser(S, p)] IN
        IF user.name = NULL THEN Ret(S, <<"new_user", NULL>>, <<>>)
        ELSE IF f = 2 THEN Ret(S, <<"error_database_check", NULL>>, <<>>)
        ELSE IF ActiveCommitments(S, FirstUser(S, p)) # {}
             THEN Ret(S, <<"user_exists_active_goal", user.name>>, <<>>)
             ELSE Ret(S, <<"user_exists_no_goal", user.name>>, <<>>)

\* ----------------------------------------------------------- get_user_status
get_user_status(S, p, f) ==
    IF f = 1 THEN Ret(S, <<"error_database_check", NULL>>, <<>>)
    ELSE IF UsersByPhone(S, p) = {} THEN
        IF f = 2 THEN Ret(S, <<"error_database_check", NULL>>, <<>>)
        ELSE Ret([S EXCEPT !.users = Append(@,
                     [phone_number |-> p, name |-> NULL,
                      proof_submission_state |-> NULL,
                      proof_submission_data |-> {}])],
                 <<"new_user", NULL>>, <<>>)
    ELSE LET user == S.users[FirstUser(S, p)] IN
        IF Falsy(user.name) THEN Ret(S, <<"new_user", NULL>>, <<>>)
        ELSE IF f = 2 THEN Ret(S, <<"error_database_check", NULL>>, <<>>)
        ELSE IF ActiveCommitments(S, FirstUser(S, p)) # {}
             THEN Ret(S, <<"user_exists_active_goal", user.name>>, <<>>)
             ELSE Ret(S, <<"user_exists_no_goal", user.name>>, <<>>)

\* ------------------------------------------- get_user_status, call by call
\* The users table holds one row per phone_number (uniqueness constraint of
\* the persisted schema): an insert of a phone_number the table already holds
\* raises.
UsersInsert_unconstrained(S, row) ==
    [store |-> [S EXCEPT !.users = Append(@, row)], raised |-> FALSE]

UsersInsert(S, row) ==
    IF UsersByPhone(S, row.phone_number) # {}
    THEN [store |-> S, raised |-> TRUE]
    ELSE [store |-> [S EXCEPT !.users = Append(@, row)], raised |-> FALSE]

\* First store call of get_user_status: the users select.  What the caller
\* keeps of response.data: 0 for no row, else the id of data[0], and its name.
get_user_status_select(S, p) ==
    IF UsersByPhone(S, p) = {}
    THEN [pc |-> "selected", phone |-> p, seen |-> 0, name |-> NULL]
    ELSE [pc |-> "selected", phone |-> p, seen |-> FirstUser(S, p),
          name |-> S.users[FirstUser(S, p)].name]

\* The rest of get_user_status, run on the store as it is by then: the insert
\* when the select saw no row, else the name check and the commitments select.
get_user_status_finish(S, c) ==
    IF c.seen = 0
    THEN LET ins == UsersInsert(S, [phone_number |-> c.phone, name |-> NULL,
                                    proof_submission_state |-> NULL,
                                    proof_submission_data |-> {}])
         IN IF ins.raised
            THEN Ret(S, <<"error_database_check", NULL>>, <<>>)
            ELSE Ret(ins.store, <<"new_user", NULL>>, <<>>)
    ELSE IF Falsy(c.name) THEN Ret(S, <<"new_user", NULL>>, <<>>)
    ELSE IF ActiveCommitments(S, c.seen) # {}
         THEN Ret(S, <<"user_exists_active_goal", c.name>>, <<>>)
         ELSE Ret(S, <<"user_exists_no_goal", c.name>>, <<>>)

\* Variant of update_user_name whose update carries no phone filter.
update_user_name_all_rows(S, p, name, f) ==
    IF f = 1 THEN Ret(S, <<"Error updating name in database.", NULL>>, <<>>)
    ELSE IF UsersByPhone(S, p) = {}
         THEN Ret(S, <<"Error: Could not find user to update.", NULL>>, <<>>)
         ELSE Ret([S EXCEPT !.users =
                      [i \in 1..Len(S.users) |->
                          [S.users[i] EXCEPT !.name = name]]],
                  <<"Successfully updated user's name", name>>, <<>>)

\* Variant of update_user_name whose update also resets the proof columns.
update_user_name_resets_proof(S, p, name, f) ==
    IF f = 1 THEN Ret(S, <<"Error updating name in database.", NULL>>, <<>>)
    ELSE IF UsersByPhone(S, p) = {}
         THEN Ret(S, <<"Error: Could not find user to update.", NULL>>, <<>>)
         ELSE Ret([S EXCEPT !.users =
                      [i \in 1..Len(S.users) |->
                          IF i \in UsersByPhone(S, p)
                          THEN [S.users[i] EXCEPT !.name = name,
                                                  !.proof_submission_state = NULL,
                                                  !.proof_submission_data = {}]
                          ELSE S.users[i]]],
                  <<"Successfully updated user's name", name>>, <<>>)

\* ---------------------------------------------------------- update_user_name
update_user_name(S, p, name, f) ==
    IF f = 1 THEN Ret(S, <<"Error updating name in database.", NULL>>, <<>>)
    ELSE IF UsersByPhone(S, p) = {}
         THEN Ret(S, <<"Error: Could not find user to update.", NULL>>, <<>>)
         ELSE Ret([S EXCEPT !.users =
                      [i \in 1..Len(S.users) |->
                          IF i \in UsersByPhone(S, p)
                          THEN [S.users[i] EXCEPT !.name = name]
                          ELSE S.users[i]]],
                  <<"Successfully updated user's name", name>>, <<>>)

\* --------------------------------------------------------- create_commitment
\* Variant of create_commitment that inserts the user row when the phone has
\* none.
create_commitment_registers(S, p, goal, schedule, f) ==
    IF f = 1 THEN Ret(S, <<"Error creating commitment in database.", NULL>>, <<>>)
    ELSE IF f = 2 THEN Ret(S, <<"Error creating commitment in database.", NULL>>, <<>>)
    ELSE LET T == IF UsersByPhone(S, p) # {} THEN S
                  ELSE [S EXCEPT !.users = Append(@,
                           [phone_number |-> p, name |-> NULL,
                            proof_submission_state |-> NULL,
                            proof_submission_data |-> {}])]
         IN Ret([T EXCEPT !.commitments = Append(@,
                 [user_id |-> FirstUser(T, p),
                  goal_description |-> goal,
                  task_description |-> NULL,
                  stake_amount |-> 25,
                  stake_type |-> "one_time_on_failure",
                  start_date |-> "2024-01-15",
                  end_date |-> "2024-02-15",
                  schedule |-> IF schedule = NULL THEN "daily" ELSE schedule,
                  verification_method |-> NULL,
                  status |-> DefaultCommitmentStatus])],
             <<"Successfully created commitment!", goal>>, <<>>)

create_commitment(S, p, goal, schedule, f) ==
    IF f = 1 THEN Ret(S, <<"Error creating commitment in database.", NULL>>, <<>>)
    ELSE IF UsersByPhone(S, p) = {}
         THEN Ret(S, <<"Error: User not found.", NULL>>, <<>>)
    ELSE IF f = 2 THEN Ret(S, <<"Error creating commitment in database.", NULL>>, <<>>)
    ELSE Ret([S EXCEPT !.commitments = Append(@,
                 [user_id |-> FirstUser(S, p),
                  goal_description |-> goal,
                  task_description |-> NULL,
                  stake_amount |-> 25,
                  stake_type |-> "one_time_on_failure",
                  start_date |-> "2024-01-15",
                  end_date |-> "2024-02-15",
                  schedule |-> IF schedule = NULL THEN "daily" ELSE schedule,
                  verification_method |-> NULL,
                  status |-> DefaultCommitmentStatus])],
             <<"Successfully created commitment!", goal>>, <<>>)

\* ----------------------------------------------------- get_active_commitment
get_active_commitment(S, p, pick, f) ==
    IF f = 1 THEN Ret(S, <<"Error retrieving commitment details.", NULL>>, <<>>)
    ELSE IF UsersByPhone(S, p) = {}
         THEN Ret(S, <<"Error: User not found.", NULL>>, <<>>)
    ELSE IF f = 2 THEN Ret(S, <<"Error retrieving commitment details.", NULL>>, <<>>)
    ELSE IF ActiveCommitments(S, FirstUser(S, p)) = {}
         THEN Ret(S, <<"No active commitment found.", NULL>>, <<>>)
    ELSE RetRow(S, <<"Active Goal", S.commitments[pick].goal_description>>, pick)

\* Variant of create_verification that does not look for an active
\* commitment before it inserts.
create_verification_unchecked(S, p, due_date, proof_url, justification, pick, f) ==
    IF f = 1 THEN Ret(S, <<"Error creating verification record.", NULL>>, <<>>)
    ELSE IF UsersByPhone(S, p) = {}
         THEN Ret(S, <<"Error: User not found.", NULL>>, <<>>)
    ELSE IF f \in {2, 3}
         THEN Ret(S, <<"Error creating verification record.", NULL>>, <<>>)
    ELSE RetRow([S EXCEPT !.verifications = Append(@,
                    [commitment_id |-> pick,
                     due_date |-> due_date,
                     status |-> "completed_on_time",
                     proof_url |-> proof_url,
                     justification |-> justification])],
                <<"Verification recorded successfully", NULL>>, pick)

\* Variant of create_verification whose commitments select has no user_id
\* filter: the row it takes is the first active one of the table.
create_verification_first_row(S, p, due_date, proof_url, justification, pick, f) ==
    IF f = 1 THEN Ret(S, <<"Error creating verification record.", NULL>>, <<>>)
    ELSE IF UsersByPhone(S, p) = {}
         THEN Ret(S, <<"Error: User not found.", NULL>>, <<>>)
    ELSE IF f = 2 THEN Ret(S, <<"Error creating verification record.", NULL>>, <<>>)
    ELSE IF ActiveCommitments(S, FirstUser(S, p)) = {}
         THEN Ret(S, <<"Error: No active commitment found.", NULL>>, <<>>)
    ELSE IF f = 3 THEN Ret(S, <<"Error creating verification record.", NULL>>, <<>>)
    ELSE LET first == CHOOSE c \in 1..Len(S.commitments) :
                         /\ S.commitments[c].status = "active"
                         /\ \A d \in 1..(c - 1) : S.commitments[d].status # "active"
         IN RetRow([S EXCEPT !.verifications = Append(@,
                    [commitment_id |-> first,
                     due_date |-> due_date,
                     status |-> "completed_on_time",
                     proof_url |-> proof_url,
                     justification |-> justification])],
                <<"Verification recorded successfully", NULL>>, first)

\* Variant of create_verification that closes the commitment it records a
\* verification for.
create_verification_completes(S, p, due_date, proof_url, justification, pick, f) ==
    IF f = 1 THEN Ret(S, <<"Error creating verification record.", NULL>>, <<>>)
    ELSE IF UsersByPhone(S, p) = {}
         THEN Ret(S, <<"Error: User not found.", NULL>>, <<>>)
    ELSE IF f = 2 THEN Ret(S, <<"Error creating verification record.", NULL>>, <<>>)
    ELSE IF ActiveCommitments(S, FirstUser(S, p)) = {}
         THEN Ret(S, <<"Error: No active commitment found.", NULL>>, <<>>)
    ELSE IF f = 3 THEN Ret(S, <<"Error creating verification record.", NULL>>, <<>>)
    ELSE RetRow([S EXCEPT !.verifications = Append(@,
                    [commitment_id |-> pick,
                     due_date |-> due_date,
                     status |-> "completed_on_time",
                     proof_url |-> proof_url,
                     justification |-> justification]),
                          !.commitments[pick].status = "completed"],
                <<"Verification recorded successfully", NULL>>, pick)

\* ------------------------------------------------------- create_verification
create_verification(S, p, due_date, proof_url, justification, pick, f) ==
    IF f = 1 THEN Ret(S, <<"Error creating verification record.", NULL>>, <<>>)
    ELSE IF UsersByPhone(S, p) = {}
         THEN Ret(S, <<"Error: User not found.", NULL>>, <<>>)
    ELSE IF f = 2 THEN Ret(S, <<"Error creating verification record.", NULL>>, <<>>)
    ELSE IF ActiveCommitments(S, FirstUser(S, p)) = {}
         THEN Ret(S, <<"Error: No active commitment found.", NULL>>, <<>>)
    ELSE IF f = 3 THEN Ret(S, <<"Error creating verification record.", NULL>>, <<>>)
    ELSE RetRow([S EXCEPT !.verifications = Append(@,
                    [commitment_id |-> pick,
                     due_date |-> due_date,
                     status |-> "completed_on_time",
                     proof_url |-> proof_url,
                     justification |-> justification])],
                <<"Verification recorded successfully", NULL>>, pick)

\* Variant of create_verification_record that stores the status it computes
\* from the verdict.
create_verification_record_verdict_status(S, user_phone, completed, reasoning, day, pick, f, dispatched) ==
    LET verification_status == IF completed THEN "completed" ELSE "attempted"
        r == create_verification(S, user_phone, day, "flow_verification", reasoning, pick, f)
    IN IF ~dispatched
       THEN Ret(S, <<"Error creating verification record", NULL>>, <<>>)
       ELSE IF Len(r.store.verifications) = Len(S.verifications) THEN r
       ELSE [r EXCEPT !.store.verifications[Len(S.verifications) + 1].status = verification_status]

\* ------------------------------------------------ create_verification_record
\* completed and reasoning are what the image verdict (verification_result)
\* holds.  The tool computes verification_status from the verdict and does
\* not pass it on.  It calls the create_verification tool object with keyword
\* arguments: dispatched says whether that call gets to the function (FALSE:
\* it raises, and the except answers).
create_verification_record(S, user_phone, completed, reasoning, day, pick, f, dispatched) ==
    LET verification_status == IF completed THEN "completed" ELSE "attempted"
    IN IF ~dispatched
       THEN Ret(S, <<"Error creating verification record", NULL>>, <<>>)
       ELSE create_verification(S, user_phone, day, "flow_verification", reasoning, pick, f)

\* ----------------------- create_verification_record of verification_tools.py
\* The parameters of create_verification, and those without a default
CreateVerificationParams == {"phone_number", "due_date", "proof_url", "justification"}

CreateVerificationRequired == {"phone_number", "due_date"}

\* Whether a call with these keyword arguments binds to create_verification
CallBinds(keywords) ==
    /\ keywords \subseteq CreateVerificationParams
    /\ CreateVerificationRequired \subseteq keywords

\* The tool the agent is given (agents.py imports it from verification_tools).
\* It calls create_verification with the keywords user_phone, status,
\* proof_url and notes; a call that does not bind raises and the except
\* answers.  dispatched is as in create_verification_record.
verification_tools_create_verification_record(S, user_phone, completed, reasoning, day, pick, f, dispatched) ==
    LET verification_status == IF completed THEN "completed" ELSE "attempted"
    IN IF dispatched /\ CallBinds({"user_phone", "status", "proof_url", "notes"})
       THEN create_verification(S, user_phone, day, "flow_verification", reasoning, pick, f)
       ELSE Ret(S, <<"Error creating verification record", NULL>>, <<>>)

\* --------------------------------------------- manage_proof_submission_state
\* dict.update on dictionaries kept as sets of <<key, value>> pairs
DictUpdate(cur, new) ==
    {kv \in cur : \A nv \in new : nv[1] # kv[1]} \cup new

\* A stored payload is None or a non-empty dictionary ("current_proof_data if
\* current_proof_data else None"); {} stands for None.
manage_proof_submission_state(S, p, state, proof_data, f) ==
    IF f = 1
    THEN Ret(S, <<"Error: Database schema missing proof_submission_state column", NULL>>, <<>>)
    ELSE IF UsersByPhone(S, p) = {}
         THEN Ret(S, <<"Error: User not found.", NULL>>, <<>>)
    ELSE LET user_id == FirstUser(S, p)
             current_proof_data ==
                 IF proof_data # {}
                 THEN DictUpdate(S.users[user_id].proof_submission_data, proof_data)
                 ELSE S.users[user_id].proof_submission_data
         IN IF f = 2
            THEN Ret(S, <<"Error managing proof submission state", NULL>>, <<>>)
            ELSE Ret([S EXCEPT !.users[user_id] =
                         [@ EXCEPT !.proof_submission_state = state,
                                   !.proof_submission_data = current_proof_data]],
                     IF Falsy(state)
                     THEN <<"User proof submission state cleared", NULL>>
                     ELSE <<"User proof submission state updated to", state>>,
                     <<>>)

\* Variant of get_proof_submission_state without the "if not state" test.
get_proof_submission_state_any(S, p, f) ==
    IF f = 1 THEN Ret(S, <<"No active proof submission process", NULL>>, <<>>)
    ELSE IF UsersByPhone(S, p) = {}
         THEN Ret(S, <<"Error: User not found.", NULL>>, <<>>)
    ELSE Ret(S, <<"State", S.users[FirstUser(S, p)].proof_submission_state>>, <<>>)

\* Variant of get_proof_submission_state without the inner except: a failing
\* select is answered by the outer one.
get_proof_submission_state_outer_handler(S, p, f) ==
    IF f = 1 THEN Ret(S, <<"Error retrieving proof submission state", NULL>>, <<>>)
    ELSE IF UsersByPhone(S, p) = {}
         THEN Ret(S, <<"Error: User not found.", NULL>>, <<>>)
    ELSE LET state == S.users[FirstUser(S, p)].proof_submission_state IN
         IF Falsy(state)
         THEN Ret(S, <<"No active proof submission process", NULL>>, <<>>)
         ELSE Ret(S, <<"State", state>>, <<>>)

\* ------------------------------------------------ get_proof_submission_state
\* Any exception of the select is taken for a missing column (the inner
\* except) and answered as "no active submission".
get_proof_submission_state(S, p, f) ==
    IF f = 1 THEN Ret(S, <<"No active proof submission process", NULL>>, <<>>)
    ELSE IF UsersByPhone(S, p) = {}
         THEN Ret(S, <<"Error: User not found.", NULL>>, <<>>)
    ELSE LET state == S.users[FirstUser(S, p)].proof_submission_state IN
         IF Falsy(state)
         THEN Ret(S, <<"No active proof submission process", NULL>>, <<>>)
         ELSE Ret(S, <<"State", state>>, <<>>)

\* ----------------------------------------------------- send_whatsapp_message
\* One dispatcher call, logged with what became of it: "unconfigured" when a
\* Twilio credential is missing (no gateway call), "failed" when the gateway
\* call raises, "sent" otherwise.
send_whatsapp_message(S, to, body, outcome) ==
    Ret(S,
        CASE outcome = "unconfigured" ->
                 <<"Error: Twilio credentials are not configured.", NULL>>
          [] outcome = "failed" -> <<"Error sending message", NULL>>
          [] OTHER -> <<"Message sent successfully", NULL>>,
        <<[to |-> to, body |-> body, outcome |-> outcome]>>)

\* Variant of start_proof_submission that opens the submission in a state
\* process_proof_submission_response has no branch for.
start_proof_submission_other_state(S, to, fm, outcome) ==
    LET m == manage_proof_submission_state(S, to, "awaiting_proof_text", {}, fm)
    IN Ret(m.store,
           CASE outcome = "unconfigured" ->
                    <<"Error: Twilio credentials are not configured.", NULL>>
             [] outcome = "failed" -> <<"Error starting proof submission", NULL>>
             [] OTHER -> <<"Proof submission process started", NULL>>,
           <<[to |-> to, body |-> "Submit Your Proof", outcome |-> outcome]>>)

\* ---------------------------------------------------- start_proof_submission
\* The result of manage_proof_submission_state is dropped; the prompt goes
\* out through the Twilio client directly.
start_proof_submission(S, to, fm, outcome) ==
    LET m == manage_proof_submission_state(S, to, AWAITING_PROOF_PHOTO, {}, fm)
    IN Ret(m.store,
           CASE outcome = "unconfigured" ->
                    <<"Error: Twilio credentials are not configured.", NULL>>
             [] outcome = "failed" -> <<"Error starting proof submission", NULL>>
             [] OTHER -> <<"Proof submission process started", NULL>>,
           <<[to |-> to, body |-> "Submit Your Proof", outcome |-> outcome]>>)

\* Variant of process_proof_submission_response that clears the state
\* before it looks at the media reference.
process_proof_submission_response_clears_first(S, p, user_message, media_url, day, fg, fm, fv, pick, outcome) ==
    LET state_result == get_proof_submission_state(S, p, fg).result IN
    IF state_result[1] = "No active proof submission process"
    THEN Ret(S, <<"No active proof submission process. Use start_proof_submission to begin.", NULL>>, <<>>)
    ELSE IF state_result = <<"State", AWAITING_PROOF_PHOTO>>
    THEN LET m == manage_proof_submission_state(S, p, NULL, {}, fm) IN
         IF Falsy(media_url)
         THEN send_whatsapp_message(m.store, p,
                  "Please send a photo to complete your proof submission.", outcome)
         ELSE LET v == create_verification(m.store, p, day, media_url,
                           IF Falsy(user_message) THEN "Photo proof submitted"
                                                  ELSE user_message,
                           pick, fv)
                  s == send_whatsapp_message(v.store, p,
                           "Proof Submitted Successfully!", outcome)
              IN [s EXCEPT !.row = v.row]
    ELSE Ret(S, <<"Unknown proof submission state.", NULL>>, <<>>)

\* ----------------------------------------- process_proof_submission_response
\* fg, fm, fv: the raising store call of the state read, of the state update
\* and of create_verification; day: what date.today() gives.
\* Variant of process_proof_submission_response that records the proof and
\* confirms it without clearing the proof state.
process_proof_submission_response_keeps_state(S, p, user_message, media_url, day, fg, fm, fv, pick, outcome) ==
    LET state_result == get_proof_submission_state(S, p, fg).result IN
    IF state_result[1] = "No active proof submission process"
    THEN Ret(S, <<"No active proof submission process. Use start_proof_submission to begin.", NULL>>, <<>>)
    ELSE IF state_result = <<"State", AWAITING_PROOF_PHOTO>>
    THEN IF Falsy(media_url)
         THEN send_whatsapp_message(S, p,
                  "Please send a photo to complete your proof submission.", outcome)
         ELSE LET v == create_verification(S, p, day, media_url,
                           IF Falsy(user_message) THEN "Photo proof submitted"
                                                  ELSE user_message,
                           pick, fv)
                  s == send_whatsapp_message(v.store, p,
                           "Proof Submitted Successfully!", outcome)
              IN [s EXCEPT !.row = v.row]
    ELSE Ret(S, <<"Unknown proof submission state.", NULL>>, <<>>)

process_proof_submission_response_rollback(S, p, user_message, media_url, day, fg, fm, fv, pick, outcome) ==
    LET state_result == get_proof_submission_state(S, p, fg).result IN
    IF state_result[1] = "No active proof submission process"
    THEN Ret(S, <<"No active proof submission process. Use start_proof_submission to begin.", NULL>>, <<>>)
    ELSE IF state_result = <<"State", AWAITING_PROOF_PHOTO>>
    THEN IF Falsy(media_url)
         THEN send_whatsapp_message(S, p,
                  "Please send a photo to complete your proof submission.", outcome)
         ELSE LET m == manage_proof_submission_state(S, p, NULL, {}, fm)
                  v == create_verification(m.store, p, day, media_url,
                           IF Falsy(user_message) THEN "Photo proof submitted"
                                                  ELSE user_message,
                           pick, fv)
                  s == send_whatsapp_message(v.store, p,
                           "Proof Submitted Successfully!", outcome)
              IN IF outcome = "failed" THEN [s EXCEPT !.store = S]
                 ELSE [s EXCEPT !.row = v.row]
    ELSE Ret(S, <<"Unknown proof submission state.", NULL>>, <<>>)

process_proof_submission_response(S, p, user_message, media_url, day, fg, fm, fv, pick, outcome) ==
    LET state_result == get_proof_submission_state(S, p, fg).result IN
    IF state_result[1] = "No active proof submission process"
    THEN Ret(S, <<"No active proof submission process. Use start_proof_submission to begin.", NULL>>, <<>>)
    ELSE IF state_result = <<"State", AWAITING_PROOF_PHOTO>>
    THEN IF Falsy(media_url)
         THEN send_whatsapp_message(S, p,
                  "Please send a photo to complete your proof submission.", outcome)
         ELSE LET m == manage_proof_submission_state(S, p, NULL, {}, fm)
                  v == create_verification(m.store, p, day, media_url,
                           IF Falsy(user_message) THEN "Photo proof submitted"
                                                  ELSE user_message,
                           pick, fv)
                  s == send_whatsapp_message(v.store, p,
                           "Proof Submitted Successfully!", outcome)
              IN [s EXCEPT !.row = v.row]
    ELSE Ret(S, <<"Unknown proof submission state.", NULL>>, <<>>)

\* ------------------------------------------------------ sender normalisation
StartsWith(s, t) == Len(s) >= 1 /\ s[1] = t

\* str.replace("whatsapp:", ""): every occurrence goes
RECURSIVE Join(_)
\* A string is a sequence of tokens.  "whats" followed by "app:" spells the
\* prefix: Join reads a sequence as the string it spells.
Join(s) ==
    IF Len(s) < 2 THEN s
    ELSE IF s[1] = "whats" /\ s[2] = "app:"
         THEN <<WA>> \o Join(SubSeq(s, 3, Len(s)))
         ELSE <<s[1]>> \o Join(Tail(s))

RemovePrefixToken(s) == Join(SelectSeq(s, LAMBDA t : t # WA))

RECURSIVE LStrip(_)
LStrip(s) == IF StartsWith(s, " ") THEN LStrip(Tail(s)) ELSE s

RECURSIVE RStrip(_)
RStrip(s) == IF Len(s) >= 1 /\ s[Len(s)] = " "
             THEN RStrip(SubSeq(s, 1, Len(s) - 1)) ELSE s

Strip(s) == RStrip(LStrip(s))

NormalizeSender(from_number) ==
    IF from_number # <<>> /\ StartsWith(from_number, WA)
    THEN LET number_only == Strip(RemovePrefixToken(from_number))
         IN <<WA>> \o (IF StartsWith(number_only, "+") THEN number_only
                       ELSE <<"+">> \o number_only)
    ELSE from_number

\* Variant of handle_whatsapp_message without the return after the
\* proof-submission step: the turn goes on to the agent.
\* str(e) of the exception agent_executor.ainvoke raised
ExceptionText == "exception text"

\* f"Agent error: {e}"
AgentErrorMessage(e) == <<"Agent error: ", e>>

handle_whatsapp_message_no_return(S, From, Body, MediaUrl0, day, f0, fg, fm, fv, pick, outcome, agentRaises) ==
    LET from_number == NormalizeSender(From)
        W(r, agent) == [store |-> r.store, result |-> r.result,
                        sends |-> r.sends, row |-> r.row,
                        key |-> from_number, agent |-> agent]
    IN IF from_number = <<>>
       THEN W(Ret(S, <<"error", "Missing sender number">>, <<>>), FALSE)
       ELSE LET r == IF get_proof_submission_state(S, from_number, f0).result[1]
                        # "No active proof submission process"
                     THEN process_proof_submission_response(S, from_number,
                              IF Body = "" THEN "[Media]" ELSE Body,
                              IF MediaUrl0 = "" THEN NULL ELSE MediaUrl0,
                              day, fg, fm, fv, pick, outcome)
                     ELSE Ret(S, <<NULL, NULL>>, <<>>)
            IN IF agentRaises
               THEN W([r EXCEPT !.result = <<"error", AgentErrorMessage(ExceptionText)>>], TRUE)
               ELSE W([r EXCEPT !.result = <<"ok", NULL>>], TRUE)

\* Variant of handle_whatsapp_message without the check for a missing
\* sender.
handle_whatsapp_message_unchecked_sender(S, From, Body, MediaUrl0, day, f0, fg, fm, fv, pick, outcome, agentRaises) ==
    LET from_number == NormalizeSender(From)
        W(r, agent) == [store |-> r.store, result |-> r.result,
                        sends |-> r.sends, row |-> r.row,
                        key |-> from_number, agent |-> agent]
    IN IF get_proof_submission_state(S, from_number, f0).result[1]
                   # "No active proof submission process"
       THEN LET r == process_proof_submission_response(S, from_number,
                         IF Body = "" THEN "[Media]" ELSE Body,
                         IF MediaUrl0 = "" THEN NULL ELSE MediaUrl0,
                         day, fg, fm, fv, pick, outcome)
            IN W([r EXCEPT !.result = <<"ok", NULL>>], FALSE)
       ELSE IF agentRaises
            THEN W(Ret(S, <<"error", AgentErrorMessage(ExceptionText)>>, <<>>), TRUE)
            ELSE W(Ret(S, <<"ok", NULL>>, <<>>), TRUE)

\* ---------------------------------------------------- handle_whatsapp_message
\* The answer of the webhook: the tool record plus the sender key used and
\* whether the agent was invoked.  f0 is the raising store call of the
\* handler's own state read; agentRaises says whether agent_executor.ainvoke
\* raises.  The agent's tool calls are the tool actions below.
handle_whatsapp_message(S, From, Body, MediaUrl0, day, f0, fg, fm, fv, pick, outcome, agentRaises) ==
    LET from_number == NormalizeSender(From)
        W(r, agent) == [store |-> r.store, result |-> r.result,
                        sends |-> r.sends, row |-> r.row,
                        key |-> from_number, agent |-> agent]
    IN IF from_number = <<>>
       THEN W(Ret(S, <<"error", "Missing sender number">>, <<>>), FALSE)
       ELSE IF get_proof_submission_state(S, from_number, f0).result[1]
                   # "No active proof submission process"
       THEN LET r == process_proof_submission_response(S, from_number,
                         IF Body = "" THEN "[Media]" ELSE Body,
                         IF MediaUrl0 = "" THEN NULL ELSE MediaUrl0,
                         day, fg, fm, fv, pick, outcome)
            IN W([r EXCEPT !.result = <<"ok", NULL>>], FALSE)
       ELSE IF agentRaises
            THEN W(Ret(S, <<"error", AgentErrorMessage(ExceptionText)>>, <<>>), TRUE)
            ELSE W(Ret(S, <<"ok", NULL>>, <<>>), TRUE)

\* ------------------------------------------------------------------ actions
\* What a table gained in a step: kept says that every row it held is still
\* there unchanged at its place, added is the rows appended behind them.
Diff(old, new) ==
    IF Len(new) >= Len(old) /\ SubSeq(new, 1, Len(old)) = old
    THEN [kept |-> TRUE, added |-> SubSeq(new, Len(old) + 1, Len(new))]
    ELSE [kept |-> FALSE, added |-> <<>>]

\* What the store held for phone p before the step
PreFacts(S, p) ==
    IF UsersByPhone(S, p) = {}
    THEN [exists |-> FALSE, name |-> NULL, state |-> NULL, data |-> {},
          active |-> {}]
    ELSE [exists |-> TRUE,
          name |-> S.users[FirstUser(S, p)].name,
          state |-> S.users[FirstUser(S, p)].proof_submission_state,
          data |-> S.users[FirstUser(S, p)].proof_submission_data,
          active |-> ActiveCommitments(S, FirstUser(S, p))]

\* (An action binds the record its tool returns with \E r \in {...}, which
\* evaluates the tool once.)
\* last: the operation that ran last: its arguments, its answers, what the
\* store held for its phone before it and what it changed.  faults is the
\* raising store call of each tool the operation runs, 0 for none; of it
\* last keeps ok, that no store call raised.  agent is "invoked" when the
\* webhook handed the turn to the agent, "read raised" when it did so after
\* its own state read raised, "no" otherwise.
LastRec(op, p, text, media, day, faults, r, agent) ==
    [op |-> op, phone |-> p, text |-> text, media |-> media, day |-> day,
     ok |-> \A i \in 1..Len(faults) : faults[i] = 0,
     result |-> r.result, row |-> r.row, sends |-> r.sends, agent |-> agent,
     pre |-> PreFacts(Store, p),
     users |-> Diff(users, r.store.users),
     commitments |-> Diff(commitments, r.store.commitments),
     verifications |-> Diff(verifications, r.store.verifications)]

CommitStore(r) ==
    /\ Len(r.store.commitments) <= MaxCommitments
    /\ Len(r.store.verifications) <= MaxVerifications
    /\ users' = r.store.users
    /\ commitments' = r.store.commitments
    /\ verifications' = r.store.verifications

Commit(r) ==
    /\ CommitStore(r)
    /\ inflight' = inflight

\* The rows a commitments select may list first for phone p
Picks(S, p) ==
    IF UsersByPhone(S, p) = {} \/ ActiveCommitments(S, FirstUser(S, p)) = {}
    THEN {0} ELSE ActiveCommitments(S, FirstUser(S, p))

\* Environment of one run of process_proof_submission_response: the raising
\* store call of the state read (fg), of the state update (fm) and of
\* create_verification (fv), the date, the commitment row listed first and
\* what becomes of the send.  An input the run does not read stays at its
\* default, so that runs differing only in unread inputs are one step.
DefaultEnv ==
    [f0 |-> 0, fg |-> 0, fm |-> 0, fv |-> 0, day |-> "2024-01-15", pick |-> 0,
     outcome |-> "sent", agentRaises |-> FALSE]

\* update and insert: none raises, any single call raises, or both do.
\* The date and the row listed first are read only by an insert that is
\* reached and does not raise (fv = 0).
WriteFaults ==
    {<<0, 0>>, <<1, 0>>, <<2, 0>>, <<0, 1>>, <<0, 2>>, <<0, 3>>, <<2, 3>>}

ProcessEnvs(S, p, media_url, outcomes) ==
    {[DefaultEnv EXCEPT !.fg = 1]} \cup
    IF get_proof_submission_state(S, p, 0).result # <<"State", AWAITING_PROOF_PHOTO>>
    THEN {DefaultEnv}
    ELSE IF Falsy(media_url)
    THEN {[DefaultEnv EXCEPT !.outcome = o] : o \in outcomes}
    ELSE {[DefaultEnv EXCEPT !.fm = w[1], !.fv = w[2], !.outcome = o] :
             w \in {x \in WriteFaults : x[2] # 0}, o \in outcomes}
         \cup
         {[DefaultEnv EXCEPT !.fm = w[1], !.day = d, !.pick = k, !.outcome = o] :
             w \in {x \in WriteFaults : x[2] = 0}, d \in Dates,
             k \in Picks(S, p), o \in outcomes}

WebhookEnvs(S, From, MediaUrl0, outcomes) ==
    LET key == NormalizeSender(From) IN
    IF key = <<>> THEN {DefaultEnv}
    ELSE {[DefaultEnv EXCEPT !.f0 = 1, !.agentRaises = b] : b \in BOOLEAN} \cup
         IF get_proof_submission_state(S, key, 0).result[1]
                = "No active proof submission process"
         THEN {[DefaultEnv EXCEPT !.agentRaises = b] : b \in BOOLEAN}
         ELSE ProcessEnvs(S, key, MediaUrl0, outcomes)

\* Callers whose get_user_status runs concurrently (the agent runs its tools
\* on worker threads, one agent run per webhook request)
Threads == {1, 2}

\* A caller that is not inside get_user_status
Idle == [pc |-> "idle", phone |-> <<>>, seen |-> 0, name |-> NULL]

Init ==
    /\ inflight = [t \in Threads |-> Idle]
    /\ users = <<>>
    /\ commitments = <<>>
    /\ verifications = <<>>
    /\ last = [op |-> "init", phone |-> <<>>, text |-> NULL, media |-> NULL,
               day |-> NULL, ok |-> TRUE, result |-> <<NULL, NULL>>, row |-> 0,
               sends |-> <<>>, agent |-> "no",
               pre |-> [exists |-> FALSE, name |-> NULL, state |-> NULL,
                        data |-> {}, active |-> {}],
               users |-> [kept |-> TRUE, added |-> <<>>],
               commitments |-> [kept |-> TRUE, added |-> <<>>],
               verifications |-> [kept |-> TRUE, added |-> <<>>]]

Resolve(p, f) ==
    \E r \in {get_user_status(Store, p, f)} :
    /\ Commit(r)
    /\ last' = LastRec("get_user_status", p, NULL, NULL, NULL, <<f>>, r, "no")

\* get_user_status of caller t, its two store calls as two steps
ResolveSelect(t, p) ==
    /\ inflight[t].pc = "idle"
    /\ inflight' = [inflight EXCEPT ![t] = get_user_status_select(Store, p)]
    /\ UNCHANGED <<users, commitments, verifications, last>>

ResolveFinish(t) ==
    /\ inflight[t].pc = "selected"
    /\ \E r \in {get_user_status_finish(Store, inflight[t])} :
          /\ users' = r.store.users
          /\ last' = LastRec("get_user_status, call by call", inflight[t].phone,
                             NULL, NULL, NULL, <<>>, r, "no")
    /\ inflight' = [inflight EXCEPT ![t] = Idle]
    /\ UNCHANGED <<commitments, verifications>>

UpdateName(p, name, f) ==
    \E r \in {update_user_name(Store, p, name, f)} :
    /\ Commit(r)
    /\ last' = LastRec("update_user_name", p, name, NULL, NULL, <<f>>, r, "no")

CreateCommitment(p, goal, schedule, f) ==
    \E r \in {create_commitment(Store, p, goal, schedule, f)} :
    /\ Commit(r)
    /\ last' = LastRec("create_commitment", p, goal, NULL, NULL, <<f>>, r, "no")

GetActiveCommitment(p, pick, f) ==
    \E r \in {get_active_commitment(Store, p, pick, f)} :
    /\ Commit(r)
    /\ last' = LastRec("get_active_commitment", p, NULL, NULL, NULL, <<f>>, r, "no")

CreateVerification(p, due_date, proof_url, pick, f) ==
    \E r \in {create_verification(Store, p, due_date, proof_url, NULL, pick, f)} :
    /\ Commit(r)
    /\ last' = LastRec("create_verification", p, NULL, proof_url, due_date,
                       <<f>>, r, "no")

StartProofSubmission(p, fm, outcome) ==
    \E r \in {start_proof_submission(Store, p, fm, outcome)} :
    /\ Commit(r)
    /\ last' = LastRec("start_proof_submission", p, NULL, NULL, NULL, <<fm>>, r, "no")

ManageProofSubmissionState(p, state, proof_data, f) ==
    \E r \in {manage_proof_submission_state(Store, p, state, proof_data, f)} :
    /\ Commit(r)
    /\ last' = LastRec("manage_proof_submission_state", p, NULL, NULL, NULL,
                       <<f>>, r, "no")

CreateVerificationRecord(p, completed, pick, f, dispatched) ==
    \E r \in {verification_tools_create_verification_record(Store, p, completed,
                 "clear image", "2024-01-15", pick, f, dispatched)} :
    /\ Commit(r)
    /\ last' = LastRec("create_verification_record", p,
                       IF completed THEN "completed" ELSE "attempted",
                       NULL, "2024-01-15", <<f>>, r, "no")

ProcessProofSubmissionResponse(p, user_message, media_url, e) ==
    \E r \in {process_proof_submission_response(Store, p, user_message,
                 media_url, e.day, e.fg, e.fm, e.fv, e.pick, e.outcome)} :
    /\ Commit(r)
    /\ last' = LastRec("process_proof_submission_response", p, user_message,
                       media_url, e.day, <<e.fg, e.fm, e.fv>>, r, "no")

Webhook(From, Body, MediaUrl0, e) ==
    \E r \in {handle_whatsapp_message(Store, From, Body, MediaUrl0, e.day, e.f0,
                 e.fg, e.fm, e.fv, e.pick, e.outcome, e.agentRaises)} :
    /\ Commit(r)
    /\ last' = LastRec("handle_whatsapp_message", r.key, Body, MediaUrl0, e.day,
                       <<e.f0, e.fg, e.fm, e.fv>>, r,
                       IF ~r.agent THEN "no"
                       ELSE IF e.f0 = 0 THEN "invoked" ELSE "read raised")

\* Raw senders the webhook receives: missing, without the "+", with blanks
\* around the number.
RawSenders == {<<>>, <<WA, "1">>, <<WA, " ", "+", "2", " ">>}

\* The proof-submission protocol and the webhook around it.  One user
\* (Key1) is registered and given commitments; the webhook also hears from a
\* key that has no row.
Next ==
    \/ Resolve(Key1, 0)
    \/ CreateCommitment(Key1, "Exercise daily", NULL, 0)
    \/ \E fm \in 0..2, outcome \in {"sent", "failed"} :
          StartProofSubmission(Key1, fm, outcome)
    \/ \E media_url \in MediaArgs :
          \E e \in ProcessEnvs(Store, Key1, media_url, {"sent", "failed"}) :
             ProcessProofSubmissionResponse(Key1, "here", media_url, e)
    \/ \E From \in RawSenders, Body \in Bodies, MediaUrl0 \in MediaUrls :
          \E e \in WebhookEnvs(Store, From, MediaUrl0, {"sent", "failed"}) :
             Webhook(From, Body, MediaUrl0, e)

Spec == Init /\ [][Next]_vars

\* The store tools, called for two users.
NextStore ==
    \/ \E p \in Phones, f \in 0..2 : Resolve(p, f)
    \/ \E p \in Phones, name \in Names : UpdateName(p, name, 0)
    \/ \E p \in Phones, goal \in Goals, schedule \in Schedules, f \in 0..2 :
          CreateCommitment(p, goal, schedule, f)
    \/ \E p \in Phones : \E pick \in Picks(Store, p) :
          GetActiveCommitment(p, pick, 0)
    \/ \E p \in Phones, f \in 0..3 : \E pick \in Picks(Store, p) :
          CreateVerification(p, "2024-01-15", NULL, pick, f)

SpecStore == Init /\ [][NextStore]_vars

\* Raw From values: every string of at most MaxRawLen tokens
RawTokens == {WA, "whats", "app:", "+", "1", " "}

RawStrings ==
    {x \in UNION {[1..n -> RawTokens] : n \in 0..MaxRawLen} : Join(x) = x}

\* The sender normalisation of the webhook on its own: a From value arrives,
\* is normalised, and the result is normalised again.
InitCanon ==
    /\ users = <<>>
    /\ commitments = <<>>
    /\ verifications = <<>>
    /\ inflight = [t \in Threads |-> Idle]
    /\ \E x \in RawStrings :
          last = [op |-> "received", raw |-> x, key |-> x, again |-> x]

Canonicalize ==
    /\ last.op = "received"
    /\ last' = [last EXCEPT !.op = "canonicalized",
                            !.key = NormalizeSender(last.raw),
                            !.again = NormalizeSender(last.raw)]
    /\ UNCHANGED <<users, commitments, verifications, inflight>>

CanonicalizeAgain ==
    /\ last.op = "canonicalized"
    /\ last' = [last EXCEPT !.op = "canonicalized twice",
                            !.again = NormalizeSender(last.key)]
    /\ UNCHANGED <<users, commitments, verifications, inflight>>

NextCanon == Canonicalize \/ CanonicalizeAgain

SpecCanon == InitCanon /\ [][NextCanon]_vars

\* ------------------------------------------------------------------- turns
\* A turn is one run of handle_whatsapp_message.  The part before the agent
\* runs without an await; the agent run is awaited, its tool calls are
\* separate steps, and turns of other requests run between them.
\* A turn in flight or finished, as caller t holds it:
\*   arrival  the place of its request in arrival order
\*   resolved get_user_status was called in the turn
\*   early    a row changed or a message went out before that call
\*   sends    the messages sent in the turn
\*   wrote    the turn changed a row
\*   late     the turn changed a row after a later arrival had changed one
\*   final    the tool called last
TurnRec(key, arrival) ==
    [pc |-> "agent", phone |-> key, arrival |-> arrival, resolved |-> FALSE,
     early |-> FALSE, sends |-> 0, wrote |-> FALSE, late |-> FALSE,
     calls |-> 0, final |-> NULL]

Arrival(t) == IF inflight[t].pc = "idle" THEN 0 ELSE inflight[t].arrival

\* Some turn that arrived after arrival n has changed a row
LaterWrote(n) ==
    \E u \in Threads : Arrival(u) > n /\ inflight[u].wrote

\* The turn record after a step that returned r
AfterCall(c, tool, r) ==
    LET changed == r.store # Store IN
    [c EXCEPT !.resolved = @ \/ tool = "get_user_status",
              !.early = @ \/ (/\ ~c.resolved
                              /\ tool # "get_user_status"
                              /\ (changed \/ r.sends # <<>>)),
              !.sends = @ + Len(r.sends),
              !.wrote = @ \/ changed,
              !.late = @ \/ (changed /\ LaterWrote(c.arrival)),
              !.calls = @ + 1,
              !.final = tool]

\* A request arrives at caller t.  Without a sender it is answered at once;
\* with a submission in progress the turn is the proof-submission step; else
\* the agent run starts.
TurnArrive(t, From, Body, MediaUrl0, e) ==
    /\ inflight[t].pc \in {"idle", "done"}
    /\ \A u \in Threads : Arrival(u) < MaxTurns
    /\ \E r \in {handle_whatsapp_message(Store, From, Body, MediaUrl0, e.day,
                       e.f0, e.fg, e.fm, e.fv, e.pick, e.outcome, FALSE)} :
          LET n == 1 + (CHOOSE m \in 0..MaxTurns :
                           /\ \E u \in Threads : Arrival(u) = m
                           /\ \A u \in Threads : Arrival(u) <= m)
          IN /\ IF r.agent
                THEN /\ inflight' = [inflight EXCEPT ![t] = TurnRec(r.key, n)]
                     /\ UNCHANGED <<users, commitments, verifications>>
                ELSE /\ CommitStore(r)
                     /\ inflight' = [inflight EXCEPT ![t] =
                           [AfterCall(TurnRec(r.key, n),
                                      "process_proof_submission_response", r)
                               EXCEPT !.pc = "done"]]
             /\ UNCHANGED last

\* The tool calls of the agent in a turn for key: get_user_status first
\* (Core Directive 1 of its prompt), then any of its tools.
AgentCalls(c) ==
    IF ~c.resolved THEN {[tool |-> "get_user_status", arg |-> NULL]}
    ELSE {[tool |-> "get_user_status", arg |-> NULL],
          [tool |-> "start_proof_submission", arg |-> NULL],
          [tool |-> "send_whatsapp_message", arg |-> "reply"]}
         \cup {[tool |-> "update_user_name", arg |-> n] : n \in {"Alex", "Sam"}}

AgentTool(S, key, call) ==
    CASE call.tool = "get_user_status" -> get_user_status(S, key, 0)
      [] call.tool = "update_user_name" -> update_user_name(S, key, call.arg, 0)
      [] call.tool = "start_proof_submission" ->
             start_proof_submission(S, key, 0, "sent")
      [] OTHER -> send_whatsapp_message(S, key, call.arg, "sent")

AgentCall(t) ==
    /\ inflight[t].pc = "agent"
    /\ inflight[t].calls < MaxAgentCalls
    /\ \E call \in AgentCalls(inflight[t]) :
          \E r \in {AgentTool(Store, inflight[t].phone, call)} :
             /\ CommitStore(r)
             /\ inflight' = [inflight EXCEPT ![t] = AfterCall(@, call.tool, r)]
    /\ UNCHANGED last

\* The agent run ends after the message it sends as its final action (Core
\* Directive 2 of its prompt); the webhook answers ok.
AgentEnd(t) ==
    /\ inflight[t].pc = "agent"
    /\ inflight[t].final = "send_whatsapp_message"
    /\ inflight' = [inflight EXCEPT ![t].pc = "done"]
    /\ UNCHANGED <<users, commitments, verifications, last>>

\* Envs in which every store call answers and the send goes out
AnsweringEnvs(S, From, MediaUrl0) ==
    {e \in WebhookEnvs(S, From, MediaUrl0, {"sent"}) :
        e.f0 = 0 /\ e.fg = 0 /\ e.fm = 0 /\ e.fv = 0 /\ ~e.agentRaises}

\* Requests of one sender, handled by two concurrent callers.  The sender's
\* row can also come from a get_user_status outside a webhook turn (the
\* agent invoked directly, as the repository's test scripts do).
NextTurn ==
    \/ Resolve(Key1, 0)
    \/ \E t \in Threads, MediaUrl0 \in MediaUrls :
          \E e \in AnsweringEnvs(Store, <<WA, "1">>, MediaUrl0) :
             TurnArrive(t, <<WA, "1">>, "here", MediaUrl0, e)
    \/ \E t \in Threads : AgentCall(t)
    \/ \E t \in Threads : AgentEnd(t)

SpecTurn == Init /\ [][NextTurn]_vars

\* Names a user gives, the empty one included
GivenNames == {"", "Alex", "Sam"}

\* Resolving users: get_user_status as one step for two keys and call by
\* call from two concurrent callers for one of them, with the name update
\* and the commitment insert that change what it answers.
NextResolve ==
    \/ \E p \in Phones : Resolve(p, 0)
    \/ \E t \in Threads : ResolveSelect(t, Key1)
    \/ \E t \in Threads : ResolveFinish(t)
    \/ \E p \in Phones, name \in GivenNames : UpdateName(p, name, 0)
    \/ CreateCommitment(Key1, "Read", NULL, 0)

SpecResolve == Init /\ [][NextResolve]_vars

\* Every tool that writes, called for two keys in any order, the store
\* answering every call.
NextKeys ==
    \/ \E p \in Phones : Resolve(p, 0)
    \/ \E p \in Phones : UpdateName(p, "Sam", 0)
    \/ \E p \in Phones : CreateCommitment(p, "Read", NULL, 0)
    \/ \E p \in Phones : \E pick \in Picks(Store, p) :
          CreateVerification(p, "2024-01-15", NULL, pick, 0)
    \/ \E p \in Phones : StartProofSubmission(p, 0, "sent")
    \/ \E p \in Phones, media_url \in MediaArgs :
          \E e \in {x \in ProcessEnvs(Store, p, media_url, {"sent"}) :
                       /\ x.fg = 0 /\ x.fm = 0 /\ x.fv = 0
                       /\ x.day = "2024-01-15"} :
             ProcessProofSubmissionResponse(p, "here", media_url, e)

SpecKeys == Init /\ [][NextKeys]_vars

\* Payloads given to manage_proof_submission_state: none, or a dictionary
ProofDatas == {{}, {<<"type", "photo">>}, {<<"description", "ran 5k">>}}

\* The proof protocol of one user together with the tool that sets the
\* proof state and its payload.
NextPayload ==
    \/ Resolve(Key1, 0)
    \/ CreateCommitment(Key1, "Read", NULL, 0)
    \/ \E state \in {NULL, AWAITING_PROOF_PHOTO}, proof_data \in ProofDatas, f \in 0..2 :
          ManageProofSubmissionState(Key1, state, proof_data, f)
    \/ \E fm \in 0..2 : StartProofSubmission(Key1, fm, "sent")
    \/ \E media_url \in MediaArgs :
          \E e \in ProcessEnvs(Store, Key1, media_url, {"sent"}) :
             ProcessProofSubmissionResponse(Key1, "here", media_url, e)

SpecPayload == Init /\ [][NextPayload]_vars

\* Every tool called for one user, any one of its store calls raising or
\* none, the send succeeding or failing.
NextFaults ==
    \/ \E f \in 0..2 : Resolve(Key1, f)
    \/ \E f \in 0..1 : UpdateName(Key1, "Alex", f)
    \/ \E f \in 0..2 : CreateCommitment(Key1, "Read", NULL, f)
    \/ \E f \in 0..1 : \E pick \in Picks(Store, Key1) :
          GetActiveCommitment(Key1, pick, f)
    \/ \E f \in 0..3 : \E pick \in Picks(Store, Key1) :
          CreateVerification(Key1, "2024-01-15", NULL, pick, f)
    \/ \E fm \in 0..2, outcome \in {"sent", "failed"} :
          StartProofSubmission(Key1, fm, outcome)
    \/ \E media_url \in MediaArgs :
          \E e \in {x \in ProcessEnvs(Store, Key1, media_url, {"sent", "failed"}) :
                       x.day = "2024-01-15"} :
             ProcessProofSubmissionResponse(Key1, "here", media_url, e)
    \/ \E completed \in BOOLEAN, dispatched \in BOOLEAN :
          \E pick \in Picks(Store, Key1) :
             CreateVerificationRecord(Key1, completed, pick, 0, dispatched)

SpecFaults == Init /\ [][NextFaults]_vars

\* A webhook turn of Key1 that carries a media reference and during which
\* every store call is answered
MediaTurn ==
    \E pick \in Picks(Store, Key1) :
       Webhook(Key1, "here", "img://1", [DefaultEnv EXCEPT !.pick = pick])

\* Any webhook turn of Key1: with or without media, store calls raising or
\* not
AnyTurn ==
    \E MediaUrl0 \in MediaUrls :
       \E e \in {x \in WebhookEnvs(Store, Key1, MediaUrl0, {"sent", "failed"}) :
                    x.day = "2024-01-15"} :
          Webhook(Key1, "here", MediaUrl0, e)

\* The verifications table is bounded: a submission is open only while the
\* table has room for its record.
Room ==
    PreFacts(Store, Key1).state = AWAITING_PROOF_PHOTO
       => Len(verifications) < MaxVerifications

\* The proof protocol of one user with one commitment, driven by webhook
\* turns.  FastAPI runs the handler of every request it receives, so a turn
\* with media whose store calls are answered is taken if it stays possible
\* (weak fairness).
NextLive ==
    \/ \E f \in 0..2 : Resolve(Key1, f)
    \/ commitments = <<>> /\ CreateCommitment(Key1, "Read", NULL, 0)
    \/ (\E fm \in 0..2, outcome \in {"sent", "failed"} :
           StartProofSubmission(Key1, fm, outcome)) /\ Room'
    \/ AnyTurn /\ Room'
    \/ MediaTurn

SpecLive == Init /\ [][NextLive]_vars /\ WF_vars(MediaTurn)

\* ------------------------------------------- the proof branch, call by call
\* Two server processes on one store, each answering a webhook request of
\* Key1 that carries media.  The code takes no lock and opens no transaction,
\* so the store calls of one request (the webhook's state read, then inside
\* process_proof_submission_response the second read, the update that clears
\* the state, the insert and the send) are steps another request's calls can
\* fall between.  starts counts the submissions started so far; epoch is the
\* count a request saw when it read awaiting_proof_photo.
MaxSubmittedRows == 2

ServerIdle(n) == [pc |-> "idle", starts |-> n, epoch |-> 0, row |-> 0]

InitRace ==
    /\ inflight = [t \in Threads |-> ServerIdle(0)]
    /\ users = <<>>
    /\ commitments = <<>>
    /\ verifications = <<>>
    /\ last = [op |-> "init", phone |-> <<>>, text |-> NULL, media |-> NULL,
               day |-> NULL, ok |-> TRUE, result |-> <<NULL, NULL>>, row |-> 0,
               sends |-> <<>>, agent |-> "no",
               pre |-> [exists |-> FALSE, name |-> NULL, state |-> NULL,
                        data |-> {}, active |-> {}],
               users |-> [kept |-> TRUE, added |-> <<>>],
               commitments |-> [kept |-> TRUE, added |-> <<>>],
               verifications |-> [kept |-> TRUE, added |-> <<>>]]

\* A store call of request t: its effect on the store and the place the
\* request moves to
RaceStep(t, op, r, rec) ==
    /\ Len(r.store.verifications) <= MaxSubmittedRows
    /\ users' = r.store.users
    /\ commitments' = r.store.commitments
    /\ verifications' = r.store.verifications
    /\ inflight' = [inflight EXCEPT ![t] = rec]
    /\ last' = LastRec(op, Key1, "[Media]", "img://1", "2024-01-15", <<0>>, r,
                       "no")

\* start_proof_submission, run by the agent of an earlier turn
RaceStart ==
    /\ inflight[1].starts < MaxTurns
    /\ \E r \in {start_proof_submission(Store, Key1, 0, "sent")} :
          /\ CommitStore(r)
          /\ last' = LastRec("start_proof_submission", Key1, NULL, NULL, NULL,
                             <<0>>, r, "no")
          /\ inflight' = [t \in Threads |->
                            [inflight[t] EXCEPT !.starts =
                                IF r.store.users # users THEN @ + 1 ELSE @]]

\* The webhook's own read of the proof state
WebhookReadState(t) ==
    /\ inflight[t].pc = "idle"
    /\ \E r \in {get_proof_submission_state(Store, Key1, 0)} :
          RaceStep(t, "handle_whatsapp_message: get_proof_submission_state", r,
                   IF r.result[1] # "No active proof submission process"
                   THEN [inflight[t] EXCEPT !.pc = "in proof branch"]
                   ELSE inflight[t])

\* process_proof_submission_response: its read of the proof state
ProcessReadState(t) ==
    /\ inflight[t].pc = "in proof branch"
    /\ \E r \in {get_proof_submission_state(Store, Key1, 0)} :
          RaceStep(t, "process_proof_submission_response: get_proof_submission_state", r,
                   IF r.result = <<"State", AWAITING_PROOF_PHOTO>>
                   THEN [inflight[t] EXCEPT !.pc = "read awaiting",
                                            !.epoch = inflight[t].starts]
                   ELSE ServerIdle(inflight[t].starts))

\* process_proof_submission_response: the update that clears the state
ProcessClearState(t) ==
    /\ inflight[t].pc = "read awaiting"
    /\ \E r \in {manage_proof_submission_state(Store, Key1, NULL, {}, 0)} :
          RaceStep(t, "process_proof_submission_response: manage_proof_submission_state", r,
                   [inflight[t] EXCEPT !.pc = "cleared"])

\* process_proof_submission_response: create_verification
ProcessCreateVerification(t) ==
    /\ inflight[t].pc = "cleared"
    /\ \E pick \in Picks(Store, Key1) :
          \E r \in {create_verification(Store, Key1, "2024-01-15", "img://1",
                                        "[Media]", pick, 0)} :
             RaceStep(t, "process_proof_submission_response: create_verification", r,
                      [inflight[t] EXCEPT !.pc = "recorded",
                          !.row = IF r.row = 0 THEN 0
                                  ELSE Len(r.store.verifications)])

\* process_proof_submission_response: the confirmation; the request ends
ProcessConfirm(t) ==
    /\ inflight[t].pc = "recorded"
    /\ \E r \in {send_whatsapp_message(Store, Key1,
                                       "Proof Submitted Successfully!", "sent")} :
          RaceStep(t, "process_proof_submission_response: send_whatsapp_message", r,
                   [inflight[t] EXCEPT !.pc = "answered"])

NextRace ==
    \/ Resolve(Key1, 0)
    \/ CreateCommitment(Key1, "Exercise daily", NULL, 0)
    \/ RaceStart
    \/ \E t \in Threads : WebhookReadState(t)
    \/ \E t \in Threads : ProcessReadState(t)
    \/ \E t \in Threads : ProcessClearState(t)
    \/ \E t \in Threads : ProcessCreateVerification(t)
    \/ \E t \in Threads : ProcessConfirm(t)

SpecRace == InitRace /\ [][NextRace]_vars

\* ------------------------------------------------------------ readiness_check
\* The status strings of the two checks, cut where the substring test of
\* readiness_check can tell them apart: "healthy" is one piece, and
\* "unhealthy: <text>" is "un", "healthy", ": " and the text (an exception
\* text or "missing required config", shorter than the 100 characters kept).
Healthy == <<"healthy">>
Unhealthy(text) == <<"un", "healthy", ": ", text>>

\* Python's `piece in status` for a piece of the cut above
Contains(status, piece) == \E i \in 1..Len(status) : status[i] = piece

\* dbError is the exception text of the users select, NULL when it answers;
\* url and sid are settings.SUPABASE_URL and settings.TWILIO_ACCOUNT_SID;
\* configError is the exception text of reading the settings, NULL for none.
readiness_check(dbError, url, sid, configError) ==
    LET checks == [database |-> IF dbError = NULL THEN Healthy
                                ELSE Unhealthy(dbError),
                   config |-> IF configError # NULL THEN Unhealthy(configError)
                              ELSE IF ~Falsy(url) /\ ~Falsy(sid) THEN Healthy
                              ELSE Unhealthy("missing required config")]
        all_healthy == \A k \in DOMAIN checks : Contains(checks[k], "healthy")
    IN IF ~all_healthy
       THEN [status_code |-> 503, status |-> "not_ready", checks |-> checks]
       ELSE [status_code |-> 200, status |-> "ready", checks |-> checks]

DbErrors == {NULL, "connection refused", "timed out"}
SettingValues == {NULL, "", "set"}
ConfigErrors == {NULL, "No module named 'config'"}

\* GET /ready; the select it sends reads one users row and changes nothing
ReadinessCheck(dbError, url, sid, configError) ==
    /\ last' = [op |-> "readiness_check", dbError |-> dbError,
                SUPABASE_URL |-> url, TWILIO_ACCOUNT_SID |-> sid,
                configError |-> configError,
                response |-> readiness_check(dbError, url, sid, configError)]
    /\ UNCHANGED <<users, commitments, verifications, inflight>>

\* The service answering its users while GET /ready is polled, the store
\* answering the probe or not, the settings present or missing.
NextReady ==
    \/ Resolve(Key1, 0)
    \/ UpdateName(Key1, "Alex", 0)
    \/ CreateCommitment(Key1, "Read", NULL, 0)
    \/ \E dbError \in DbErrors, url \in SettingValues, sid \in SettingValues :
          ReadinessCheck(dbError, url, sid, NULL)
    \/ \E dbError \in DbErrors, configError \in ConfigErrors \ {NULL} :
          ReadinessCheck(dbError, NULL, NULL, configError)

SpecReady == Init /\ [][NextReady]_vars

\* ------------------------------------------------------------------ properties
ADVANCE == "process_proof_submission_response"
WEBHOOK == "handle_whatsapp_message"

\* The proof state the store now holds for phone p (NULL without a row)
CurrentState(p) == PreFacts(Store, p).state

Unchanged(d) == d.kept /\ d.added = <<>>

NothingChanged ==
    /\ Unchanged(last.users)
    /\ Unchanged(last.commitments)
    /\ Unchanged(last.verifications)

\* C1: whenever advance is called with a media reference while the phone's
\* proof state is AWAITING_PROOF_PHOTO (and no store call raises), the proof
\* state afterwards is NONE and exactly one Verification row was added, with
\* proof_url the media reference and due date today.
C1_AdvanceWithPhotoRecordsOne ==
    (/\ last.op = ADVANCE
     /\ last.pre.state = AWAITING_PROOF_PHOTO
     /\ ~Falsy(last.media)
     /\ last.ok)
    => /\ CurrentState(last.phone) = NULL
       /\ last.verifications.kept
       /\ Len(last.verifications.added) = 1
       /\ last.verifications.added[1].proof_url = last.media
       /\ last.verifications.added[1].due_date = last.day

\* C2: start has no precondition: for any phone, in any state, it leaves the
\* proof state AWAITING_PROOF_PHOTO and sends one prompt (no store call
\* raising); a prompt is never sent without the state being
\* AWAITING_PROOF_PHOTO afterwards.
C2_StartLeavesAwaiting ==
    (last.op = "start_proof_submission" /\ last.ok)
    => /\ Len(last.sends) = 1
       /\ CurrentState(last.phone) = AWAITING_PROOF_PHOTO

\* C3: advance without a media reference on a user whose proof state is
\* AWAITING_PROOF_PHOTO changes no row (state and payload stay, no
\* Verification is created) and, when its state read succeeds, makes exactly
\* one dispatcher call: the re-prompt, to that user.
C3_AdvanceWithoutPhotoReprompts ==
    (/\ last.op = ADVANCE
     /\ last.pre.state = AWAITING_PROOF_PHOTO
     /\ Falsy(last.media))
    => /\ NothingChanged
       /\ CurrentState(last.phone) = AWAITING_PROOF_PHOTO
       /\ last.ok =>
            /\ Len(last.sends) = 1
            /\ last.sends[1].to = last.phone
            /\ last.sends[1].body
                 = "Please send a photo to complete your proof submission."

C3_Witness ==
    /\ last.op = ADVANCE
    /\ last.pre.state = AWAITING_PROOF_PHOTO
    /\ Falsy(last.media)
    /\ last.ok
    /\ Len(last.sends) = 1
    /\ last.sends[1].outcome = "sent"

\* C4: advance on a user whose proof state is NONE answers the no-op signal,
\* with or without a media reference, whether or not the store responds: it
\* changes no row, creates no Verification and sends nothing.
C4_AdvanceOnNoneIsNoOp ==
    (/\ last.op = ADVANCE
     /\ last.pre.exists
     /\ Falsy(last.pre.state))
    => /\ last.result[1]
            = "No active proof submission process. Use start_proof_submission to begin."
       /\ NothingChanged
       /\ last.sends = <<>>

C4_Witness ==
    /\ last.op = ADVANCE
    /\ last.pre.exists
    /\ Falsy(last.pre.state)
    /\ ~Falsy(last.media)
    /\ last.sends = <<>>

C6_NoSubmissionFallsThrough ==
    (/\ last.op = WEBHOOK
     /\ last.phone # <<>>
     /\ Falsy(last.pre.state)
     /\ last.ok)
    => last.agent = "invoked"

\* C7: each User has at most one Commitment with status active.
C7_AtMostOneActiveCommitment ==
    \A uid \in 1..Len(users) :
        Cardinality(ActiveCommitments(Store, uid)) <= 1

\* The commitment the user's latest successful createCommitment inserted
LatestCommitment(uid) ==
    CHOOSE c \in 1..Len(commitments) :
        /\ commitments[c].user_id = uid
        /\ \A d \in 1..Len(commitments) :
              commitments[d].user_id = uid => d <= c

\* C8: after createCommitment(phone, g) succeeded, getActiveCommitment(phone)
\* returns a commitment whose goal is g and whose status is active, whatever
\* commitments the user held before.
C8_GetReturnsLatestGoal ==
    (last.op = "get_active_commitment" /\ last.result[1] = "Active Goal")
    => /\ commitments[last.row].status = "active"
       /\ last.result[2]
            = commitments[LatestCommitment(
                  commitments[last.row].user_id)].goal_description

\* C9: create_verification answers "User not found" when the phone has no
\* User row and "No active commitment found" when the User has no active
\* Commitment (the store responding); in both cases, and also when a store
\* call raises, no Verification is inserted and no other row changes.
C9_RecordFailsWithoutUserOrCommitment ==
    (last.op = "create_verification"
        /\ (~last.pre.exists \/ last.pre.active = {}))
    => /\ NothingChanged
       /\ (last.ok /\ ~last.pre.exists)
            => last.result[1] = "Error: User not found."
       /\ (last.ok /\ last.pre.exists)
            => last.result[1] = "Error: No active commitment found."

C9_Witness ==
    /\ last.op = "create_verification"
    /\ last.pre.exists
    /\ last.pre.active = {}
    /\ last.result[1] = "Error: No active commitment found."
    /\ Len(commitments) > 0

\* C10: the first get_user_status for a key without a User row (the store
\* responding) answers new_user and leaves exactly one new User row, with
\* that key and no name; no other User row changes and no Commitment or
\* Verification row is created.
C10_FirstResolveCreatesUser ==
    (last.op = "get_user_status" /\ ~last.pre.exists /\ last.ok)
    => /\ last.result = <<"new_user", NULL>>
       /\ last.users.kept
       /\ Len(last.users.added) = 1
       /\ last.users.added[1].phone_number = last.phone
       /\ last.users.added[1].name = NULL
       /\ Cardinality(UsersByPhone(Store, last.phone)) = 1
       /\ Unchanged(last.commitments)
       /\ Unchanged(last.verifications)

C10_Witness ==
    /\ last.op = "get_user_status"
    /\ ~last.pre.exists
    /\ last.ok
    /\ last.result = <<"new_user", NULL>>
    /\ Len(users) = 2

\* C11: for an existing user without an active Commitment, after
\* update_user_name(phone, n) succeeded with a non-empty n, get_user_status
\* answers user_exists_no_goal:n; after a successful create_commitment for a
\* named user it answers user_exists_active_goal with that name (the insert
\* leaves the users table alone); and every get_user_status of a named user
\* that the store answers carries the stored name, with the tag that matches
\* the user's active commitments.
C11_ResolveAfterNameAndGoal ==
    /\ (/\ last.op = "update_user_name"
         /\ last.result[1] = "Successfully updated user's name"
         /\ ~Falsy(last.text)
         /\ last.pre.active = {})
        => get_user_status(Store, last.phone, 0).result
              = <<"user_exists_no_goal", last.text>>
    /\ (/\ last.op = "create_commitment"
         /\ last.result[1] = "Successfully created commitment!"
         /\ ~Falsy(last.pre.name))
        => /\ Unchanged(last.users)
           /\ get_user_status(Store, last.phone, 0).result
                 = <<"user_exists_active_goal", last.pre.name>>
    /\ (last.op = "get_user_status" /\ last.ok /\ ~Falsy(last.pre.name))
        => last.result
              = <<IF last.pre.active = {} THEN "user_exists_no_goal"
                                          ELSE "user_exists_active_goal",
                  last.pre.name>>

C11_Witness ==
    /\ last.op = "get_user_status"
    /\ last.result = <<"user_exists_active_goal", "Sam">>
    /\ \E i \in 1..Len(users) : users[i].name = "Alex"

\* C12: two consecutive get_user_status calls for one key, nothing between
\* them and the store answering, return the same status, also when the
\* first of them inserted the User row.
C12_ResolveTwiceSameStatus ==
    (last.op = "get_user_status" /\ last.ok)
    => get_user_status(Store, last.phone, 0).result = last.result

C12_Witness ==
    /\ last.op = "get_user_status"
    /\ last.ok
    /\ ~last.pre.exists
    /\ Len(last.users.added) = 1
    /\ get_user_status(Store, last.phone, 0).store = Store

\* C13: there is at most one User row per phone key, also after two
\* get_user_status calls for one unseen key whose select and insert
\* interleave.
C13_OneUserRowPerKey ==
    \A p \in Phones : Cardinality(UsersByPhone(Store, p)) <= 1

\* Both callers saw no row; the insert of the second one raised.
C13_Witness ==
    /\ last.op = "get_user_status, call by call"
    /\ last.result[1] = "error_database_check"
    /\ Cardinality(UsersByPhone(Store, Key1)) = 1

\* C14: the sender normalisation is idempotent: for every non-empty raw
\* sender, normalising the normalised sender returns it unchanged.
C14_CanonIdempotent ==
    (last.op = "canonicalized twice" /\ last.raw # <<>>)
    => last.again = last.key

\* Raw forms of the number 1: with or without the prefix, with or without
\* the "+"
RawFormsOfOne == {<<"1">>, <<"+", "1">>, <<WA, "1">>, <<WA, "+", "1">>}

\* C15: for every raw form of a number, with or without the channel prefix
\* and with or without the leading "+", the key is the prefix, "+" and the
\* digits, so all raw forms of one number yield one key.
C15_CanonPrefixedPlusDigits ==
    (last.op = "canonicalized" /\ last.raw \in RawFormsOfOne)
    => last.key = <<WA, "+", "1">>

\* C16: an inbound message with a missing or empty From is answered with the
\* error result "Missing sender number" and has no side effect: no row
\* changes, nothing is sent, the agent is not invoked, and the answer is the
\* same whether or not the store would respond (the store is not read).
C16_MissingSenderRejected ==
    /\ (last.op = WEBHOOK /\ last.phone = <<>>)
        => /\ last.result = <<"error", "Missing sender number">>
           /\ NothingChanged
           /\ last.sends = <<>>
           /\ last.agent = "no"
    /\ \A Body \in Bodies, MediaUrl0 \in MediaUrls, f0 \in 0..1,
          agentRaises \in BOOLEAN :
          LET r == handle_whatsapp_message(Store, <<>>, Body, MediaUrl0,
                       "2024-01-15", f0, 0, 0, 0, 0, "sent", agentRaises)
          IN /\ r.result = <<"error", "Missing sender number">>
             /\ r.store = Store
             /\ r.sends = <<>>
             /\ ~r.agent

C16_Witness ==
    /\ last.op = WEBHOOK
    /\ last.phone = <<>>
    /\ last.text = "here"
    /\ last.result[1] = "error"
    /\ \E i \in 1..Len(users) :
          users[i].proof_submission_state = AWAITING_PROOF_PHOTO

\* C17: an inbound message that has a sender but neither a Body nor media
\* is answered with an error result and has no side effect: no row changes,
\* nothing is sent and the agent is not invoked.
C17_EmptyMessageRejected ==
    (/\ last.op = WEBHOOK
     /\ last.phone # <<>>
     /\ last.text = ""
     /\ Falsy(last.media))
    => /\ last.result[1] = "error"
       /\ NothingChanged
       /\ last.sends = <<>>
       /\ last.agent = "no"

\* C18: every turn of a message with a sender ends with exactly one
\* outbound message: no turn sends two (the start prompt and the agent's
\* final reply), no handled turn sends none.
C18_OneReplyPerTurn ==
    \A t \in Threads :
        inflight[t].pc = "done" => inflight[t].sends = 1

\* C19: in no turn is a row changed (a Verification recorded, the proof
\* state changed) or a reply sent before get_user_status was called in that
\* turn.
C19_ResolveBeforeAction ==
    \A t \in Threads :
        inflight[t].pc \in {"agent", "done"} => ~inflight[t].early

\* C20: two turns of one key write in arrival order: no turn changes a row
\* after a turn that arrived later has changed one.
C20_WritesInArrivalOrder ==
    \A t \in Threads :
        inflight[t].pc \in {"agent", "done"} => ~inflight[t].late

\* What the store holds for key p: its User rows, the Commitments of those
\* users and the Verifications of those commitments, each with its id.
KeyView(S, p) ==
    LET cs == {c \in 1..Len(S.commitments) :
                  S.commitments[c].user_id \in UsersByPhone(S, p)}
    IN [users |-> {<<i, S.users[i]>> : i \in UsersByPhone(S, p)},
        commitments |-> {<<c, S.commitments[c]>> : c \in cs},
        verifications |-> {<<v, S.verifications[v]>> :
                              v \in {w \in 1..Len(S.verifications) :
                                        S.verifications[w].commitment_id \in cs}}]

ResolveStoreCalls(S, p) ==
    IF UsersByPhone(S, p) = {} THEN 2
    ELSE IF Falsy(S.users[FirstUser(S, p)].name) THEN 1 ELSE 2

C23_FailedSendKeepsRecord ==
    (/\ last.op \in {ADVANCE, WEBHOOK}
     /\ last.ok
     /\ last.pre.state = AWAITING_PROOF_PHOTO
     /\ last.pre.active # {}
     /\ ~Falsy(last.media)
     /\ Len(last.sends) = 1
     /\ last.sends[1].outcome = "failed")
    => /\ Len(last.verifications.added) = 1
       /\ last.verifications.added[1].proof_url = last.media
       /\ verifications # <<>>
       /\ verifications[Len(verifications)] = last.verifications.added[1]
       /\ PreFacts(Store, last.phone).state = NULL

\* A webhook turn that recorded the proof and whose confirmation failed
C23_Witness ==
    /\ last.op = WEBHOOK
    /\ last.ok
    /\ last.pre.state = AWAITING_PROOF_PHOTO
    /\ ~Falsy(last.media)
    /\ Len(last.sends) = 1
    /\ last.sends[1].outcome = "failed"
    /\ Len(last.verifications.added) = 1
    /\ PreFacts(Store, last.phone).state = NULL

\* C24: when the agent raises while a turn is handled, the webhook answers
\* with a generic "technical issue" message and the text of the exception is
\* no part of what it returns.
C24_GenericMessageOnError ==
    (/\ last.op = WEBHOOK
     /\ last.agent # "no"
     /\ last.result[1] = "error")
    => /\ last.result[2] = <<"technical issue">>
       /\ \A i \in 1..Len(last.result[2]) : last.result[2][i] # ExceptionText

\* C25: when the select of the proof-state columns raises, as it does when
\* the columns are missing, get_proof_submission_state answers "No active
\* proof submission process" whatever the user's row holds, and a webhook
\* turn of any sender hands the message to the agent without changing a row
\* or sending anything itself.
C25_MissingColumnsDegrade ==
    /\ \A p \in Phones :
          get_proof_submission_state(Store, p, 1)
             = Ret(Store, <<"No active proof submission process", NULL>>, <<>>)
    /\ \A From \in RawSenders \ {<<>>}, Body \in Bodies, MediaUrl0 \in MediaUrls :
          LET r == handle_whatsapp_message(Store, From, Body, MediaUrl0,
                       "2024-01-15", 1, 0, 0, 0, 0, "sent", FALSE)
          IN /\ r.agent
             /\ r.result = <<"ok", NULL>>
             /\ r.store = Store
             /\ r.sends = <<>>
    /\ (last.op = WEBHOOK /\ last.agent = "read raised")
          => NothingChanged /\ last.sends = <<>>

\* A turn of a user awaiting a photo whose state read raised: the agent got
\* the message
C25_Witness ==
    /\ last.op = WEBHOOK
    /\ last.agent = "read raised"
    /\ last.pre.state = AWAITING_PROOF_PHOTO
    /\ ~Falsy(last.media)
    /\ last.result = <<"ok", NULL>>
    /\ PreFacts(Store, last.phone).state = AWAITING_PROOF_PHOTO

\* C26: after start_proof_submission for a registered user, and after
\* process_proof_submission_response with a media reference for a user
\* awaiting a photo, no store call having raised, the user's stored payload
\* is empty, whatever it was before.
C26_PayloadCleared ==
    /\ (last.op = "start_proof_submission" /\ last.ok /\ last.pre.exists)
          => PreFacts(Store, last.phone).data = {}
    /\ (/\ last.op = ADVANCE
        /\ last.ok
        /\ last.pre.state = AWAITING_PROOF_PHOTO
        /\ ~Falsy(last.media))
          => PreFacts(Store, last.phone).data = {}

C28_RecordLeavesCommitmentAndUser ==
    last.op = "create_verification"
    => /\ Unchanged(last.users)
       /\ Unchanged(last.commitments)
       /\ last.pre.active = PreFacts(Store, last.phone).active
       /\ Len(last.verifications.added) = 1
             => /\ last.row \in PreFacts(Store, last.phone).active
                /\ commitments[last.row].status = "active"

\* A verification was recorded for a named user with an active commitment
C28_Witness ==
    /\ last.op = "create_verification"
    /\ last.ok
    /\ Len(last.verifications.added) = 1
    /\ last.pre.name = "Alex"
    /\ commitments[last.row].status = "active"
    /\ commitments[last.row].goal_description = "Read"

\* C29: every verification row has the status "completed_on_time": the rows
\* the store holds, the row create_verification adds for any due date and any
\* active commitment, be it daily or weekly, and the row
\* create_verification_record adds whatever the image verdict was.
C29_StatusFixed ==
    /\ \A v \in 1..Len(verifications) : verifications[v].status = "completed_on_time"
    /\ \A p \in Phones, due_date \in Dates, proof_url \in MediaArgs :
          \A S \in {Store, create_commitment(Store, p, "Read", "weekly", 0).store} :
             \A pick \in Picks(S, p) :
                LET r == create_verification(S, p, due_date, proof_url, NULL, pick, 0)
                IN \A v \in 1..Len(r.store.verifications) :
                      r.store.verifications[v].status = "completed_on_time"
    /\ \A p \in Phones, completed \in BOOLEAN, dispatched \in BOOLEAN :
          \A pick \in Picks(Store, p) :
             LET r == create_verification_record(Store, p, completed, "unclear image",
                          "2024-01-16", pick, 0, dispatched)
             IN \A v \in 1..Len(r.store.verifications) :
                   r.store.verifications[v].status = "completed_on_time"

\* A verification recorded by the proof protocol on a day after the
\* commitment's start
C29_Witness ==
    /\ last.op = ADVANCE
    /\ Len(last.verifications.added) = 1
    /\ last.verifications.added[1].status = "completed_on_time"
    /\ last.verifications.added[1].due_date = "2024-01-16"
    /\ commitments[last.row].start_date = "2024-01-15"

\* C30: every verification row refers to one commitment of the table, and
\* the commitment a new row refers to was, when create_verification ran,
\* active and owned by the user found by the phone the tool was given.
C30_VerificationOfOwnActiveCommitment ==
    /\ \A v \in 1..Len(verifications) :
          verifications[v].commitment_id \in 1..Len(commitments)
    /\ (last.op = "create_verification" /\ Len(last.verifications.added) = 1)
          => LET c == last.verifications.added[1].commitment_id IN
             /\ c \in last.pre.active
             /\ commitments[c].user_id = FirstUser(Store, last.phone)
             /\ users[commitments[c].user_id].phone_number = last.phone
             /\ commitments[c].status = "active"

\* The second user recorded a verification while the first user had an
\* active commitment too
C30_Witness ==
    /\ last.op = "create_verification"
    /\ Len(last.verifications.added) = 1
    /\ last.phone = Key2
    /\ PreFacts(Store, Key1).active # {}
    /\ last.verifications.added[1].commitment_id \in last.pre.active

\* C31: create_commitment for a phone without a user row answers "User not
\* found" and changes nothing; when it succeeds it adds one commitment row
\* of the phone's user, with the schedule "daily" when none was given and
\* the given one otherwise, and changes no user row, no other commitment and
\* no verification.
C31_CreateCommitmentFrame ==
    /\ (last.op = "create_commitment" /\ last.ok /\ ~last.pre.exists)
          => /\ last.result = <<"Error: User not found.", NULL>>
             /\ NothingChanged
    /\ (last.op = "create_commitment" /\ last.ok /\ last.pre.exists)
          => /\ last.result = <<"Successfully created commitment!", last.text>>
             /\ Unchanged(last.users)
             /\ Unchanged(last.verifications)
             /\ last.commitments.kept
             /\ Len(last.commitments.added) = 1
             /\ last.commitments.added[1].user_id = FirstUser(Store, last.phone)
             /\ last.commitments.added[1].goal_description = last.text
             /\ last.commitments.added[1].schedule = "daily"
    /\ \A p \in Phones :
          LET r == create_commitment(Store, p, "Read", "weekly", 0) IN
          IF UsersByPhone(Store, p) = {}
          THEN r = Ret(Store, <<"Error: User not found.", NULL>>, <<>>)
          ELSE /\ r.store.users = users
               /\ r.store.verifications = verifications
               /\ Diff(commitments, r.store.commitments).kept
               /\ Len(r.store.commitments) = Len(commitments) + 1
               /\ r.store.commitments[Len(commitments) + 1].schedule = "weekly"

\* create_commitment refused an unregistered phone while the other phone's
\* user had a commitment
C31_Witness ==
    /\ last.op = "create_commitment"
    /\ last.ok
    /\ ~last.pre.exists
    /\ last.result = <<"Error: User not found.", NULL>>
    /\ users # <<>>
    /\ commitments # <<>>

\* The proof columns of the user rows of a store, row by row
ProofFields(S) ==
    [i \in 1..Len(S.users) |->
        <<S.users[i].proof_submission_state, S.users[i].proof_submission_data>>]

\* T holds the rows of the present store with the same proof columns; a row
\* it holds beyond them has empty ones
KeepsProofFields(T) ==
    /\ Len(T.users) >= Len(users)
    /\ \A i \in 1..Len(T.users) :
          ProofFields(T)[i] = IF i <= Len(users) THEN ProofFields(Store)[i]
                              ELSE <<NULL, {}>>

\* C32: get_user_status, update_user_name, create_commitment,
\* get_active_commitment, create_verification and send_whatsapp_message leave
\* the proof state and the payload of every user as they are, whether a
\* store call of theirs raises or not.
C32_ProofFieldsOnlyByProtocol ==
    /\ \A p \in Phones :
        /\ \A f \in 0..2 : KeepsProofFields(get_user_status(Store, p, f).store)
        /\ \A f \in 0..1, name \in {"Alex", ""} :
              KeepsProofFields(update_user_name(Store, p, name, f).store)
        /\ \A f \in 0..2 :
              KeepsProofFields(create_commitment(Store, p, "Read", NULL, f).store)
        /\ \A f \in 0..1 : \A pick \in Picks(Store, p) :
              KeepsProofFields(get_active_commitment(Store, p, pick, f).store)
        /\ \A f \in 0..3 : \A pick \in Picks(Store, p) :
              KeepsProofFields(create_verification(Store, p, "2024-01-15",
                                   "img://1", NULL, pick, f).store)
        /\ \A outcome \in {"sent", "failed", "unconfigured"} :
              KeepsProofFields(send_whatsapp_message(Store, p, "reply", outcome).store)
    /\ (last.op \in {"get_user_status", "create_commitment"} /\ last.pre.exists)
          => /\ PreFacts(Store, last.phone).state = last.pre.state
             /\ PreFacts(Store, last.phone).data = last.pre.data

\* A commitment was created for a user awaiting a photo with a stored
\* payload
C32_Witness ==
    /\ last.op = "create_commitment"
    /\ Len(last.commitments.added) = 1
    /\ last.pre.state = AWAITING_PROOF_PHOTO
    /\ last.pre.data # {}
    /\ PreFacts(Store, last.phone).state = AWAITING_PROOF_PHOTO
    /\ PreFacts(Store, last.phone).data = last.pre.data

\* C33: the proof state of every user row is null or awaiting_proof_photo,
\* and process_proof_submission_response run for any user row, with or
\* without media, does not answer "Unknown proof submission state.".
C33_ProofStateDomain ==
    \A i \in 1..Len(users) :
       /\ users[i].proof_submission_state \in {NULL, AWAITING_PROOF_PHOTO}
       /\ \A media_url \in MediaArgs :
             \A e \in ProcessEnvs(Store, users[i].phone_number, media_url, {"sent"}) :
                process_proof_submission_response(Store, users[i].phone_number, "here", media_url, e.day, e.fg, e.fm, e.fv, e.pick, e.outcome).result[1]
                   # "Unknown proof submission state."

\* A webhook turn without media of a user awaiting a photo: the state is
\* still held after it
C33_Witness ==
    /\ last.op = WEBHOOK
    /\ last.pre.state = AWAITING_PROOF_PHOTO
    /\ Falsy(last.media)
    /\ Len(last.sends) = 1
    /\ PreFacts(Store, last.phone).state = AWAITING_PROOF_PHOTO

\* C34: create_verification_record, called by the agent with a well-formed
\* verdict for a user who has an active commitment, no store call raising,
\* adds one verification row for that commitment and answers with the
\* success message of create_verification.
C34_FlowVerificationRecorded ==
    (/\ last.op = "create_verification_record"
     /\ last.ok
     /\ last.pre.active # {})
    => /\ Len(last.verifications.added) = 1
       /\ last.verifications.added[1].commitment_id \in last.pre.active
       /\ last.result = <<"Verification recorded successfully", NULL>>

\* C35: "Proof Submitted Successfully!" is delivered only in a run that
\* added a verification row for the user and left the user's proof state
\* empty.
C35_ConfirmationOnlyAfterRecord ==
    (/\ last.op \in {ADVANCE, WEBHOOK}
     /\ \E i \in 1..Len(last.sends) :
           /\ last.sends[i].body = "Proof Submitted Successfully!"
           /\ last.sends[i].outcome = "sent")
    => /\ Len(last.verifications.added) = 1
       /\ PreFacts(Store, last.phone).state = NULL

\* C36: one started submission yields at most one verification: two requests
\* with media for the same user that both read awaiting_proof_photo of the
\* same started submission do not both insert a verification row.
C36_OneVerificationPerSubmission ==
    \A t, u \in Threads :
        (/\ t # u
         /\ inflight[t].row # 0
         /\ inflight[u].row # 0)
        => inflight[t].epoch # inflight[u].epoch

\* C37: what get_user_status answers is decided by the stored rows alone: it
\* is new_user exactly when the key had no row or the row's name is null or
\* empty, also for a user who has an active commitment and after an
\* update_user_name that stored an empty name; for a named user it is
\* user_exists_active_goal with the name when the user has an active
\* commitment and user_exists_no_goal with the name when the user has none.
C37_ResolveDecidedByRows ==
    (last.op = "get_user_status" /\ last.ok)
    => /\ (last.result = <<"new_user", NULL>>)
             <=> (~last.pre.exists \/ Falsy(last.pre.name))
       /\ (last.pre.exists /\ ~Falsy(last.pre.name))
             => last.result
                   = <<IF last.pre.active # {} THEN "user_exists_active_goal"
                                               ELSE "user_exists_no_goal",
                       last.pre.name>>

\* A user whose name was set to the empty string and who has an active
\* commitment is answered as new_user.
C37_Witness ==
    /\ last.op = "get_user_status"
    /\ last.ok
    /\ last.result = <<"new_user", NULL>>
    /\ last.pre.exists
    /\ last.pre.name = ""
    /\ last.pre.active # {}

\* C38: readiness_check answers 503 not_ready whenever the database check or
\* the configuration check is unhealthy, and answers ready only when both
\* checks are healthy.
C38_NotReadyUnlessBothHealthy ==
    last.op = "readiness_check"
    => LET bothHealthy == /\ last.dbError = NULL
                          /\ last.configError = NULL
                          /\ ~Falsy(last.SUPABASE_URL)
                          /\ ~Falsy(last.TWILIO_ACCOUNT_SID)
       IN /\ ~bothHealthy => /\ last.response.status_code = 503
                              /\ last.response.status = "not_ready"
          /\ last.response.status = "ready" => bothHealthy

====
